---- MODULE Spec2Model ----
(***************************************************************************)
(* A model of package meta of cliche: the struct-tag parser (Tag.decompose, *)
(* Tag.Arg, parseArg) and the metadata compiler (FromFile, Command.Compile, *)
(* compileInputs, commandName, sanitizeHelp).                               *)
(*                                                                          *)
(* A Go string is a sequence of one-character strings.  The empty string   *)
(* is << >>.                                                                *)
(***************************************************************************)
EXTENDS Integers, Sequences, FiniteSets, TLC

VARIABLES
    tag,        \* the Tag a tag method is called on
    tagRet,     \* what the tag method returned; NoCall before the call
    src,        \* the file handed to FromFile
    typeName,   \* the type name handed to FromFile
    ret,        \* what FromFile returned; NoCall before the call
    log,        \* the slog records FromFile emitted during the call
    prev        \* the caller's record of its previous FromFile call

vars == <<tag, tagRet, src, typeName, ret, log, prev>>

NoCall == [op |-> "none"]
Nil == [nil |-> TRUE]

(***************************************************************************)
(* Bounds of the model.                                                     *)
(***************************************************************************)
\* longest free-form arg value, in characters
MaxArgLen == 4
\* largest number written into the well-formed arg values
MaxNum == 11
\* most ';'-separated components of a tag given to decompose
MaxComps == 3
\* most fields of a struct declaration
MaxFields == 2

(***************************************************************************)
(* package strings                                                          *)
(***************************************************************************)
\* unicode.IsSpace, over the characters the model uses; "vtab" stands for the
\* vertical tab, which has no escape in a string here
IsSpace(c) == c \in {" ", "\t", "\n", "vtab"}

IsDigit(c) == c \in {"0", "1", "2", "3", "4", "5", "6", "7", "8", "9"}

RECURSIVE TrimLeft(_)
TrimLeft(s) ==
    IF s # << >> /\ IsSpace(Head(s)) THEN TrimLeft(Tail(s)) ELSE s

RECURSIVE TrimRight(_)
TrimRight(s) ==
    IF s # << >> /\ IsSpace(s[Len(s)])
    THEN TrimRight(SubSeq(s, 1, Len(s) - 1))
    ELSE s

\* strings.TrimSpace
TrimSpace(s) == TrimRight(TrimLeft(s))

\* strings.HasPrefix
HasPrefix(s, p) == Len(s) >= Len(p) /\ SubSeq(s, 1, Len(p)) = p

\* strings.CutPrefix: (after, found)
CutPrefix(s, p) ==
    IF HasPrefix(s, p)
    THEN [after |-> SubSeq(s, Len(p) + 1, Len(s)), found |-> TRUE]
    ELSE [after |-> s, found |-> FALSE]

\* strings.Split(s, sep) for a one-character sep: always at least one part
RECURSIVE SplitFrom(_, _, _)
SplitFrom(s, sep, cur) ==
    IF s = << >> THEN <<cur>>
    ELSE IF Head(s) = sep THEN <<cur>> \o SplitFrom(Tail(s), sep, << >>)
    ELSE SplitFrom(Tail(s), sep, Append(cur, Head(s)))

Split(s, sep) == SplitFrom(s, sep, << >>)

(***************************************************************************)
(* package strconv                                                          *)
(***************************************************************************)
DigitVal(c) ==
    CASE c = "0" -> 0 [] c = "1" -> 1 [] c = "2" -> 2 [] c = "3" -> 3
      [] c = "4" -> 4 [] c = "5" -> 5 [] c = "6" -> 6 [] c = "7" -> 7
      [] c = "8" -> 8 [] c = "9" -> 9

RECURSIVE DecimalValue(_, _)
DecimalValue(s, acc) ==
    IF s = << >> THEN acc ELSE DecimalValue(Tail(s), 10 * acc + DigitVal(Head(s)))

\* strconv.Atoi: an optional sign, then one or more decimal digits and
\* nothing else.  (Out-of-range values, 20 digits and more, lie beyond the
\* lengths the model draws.)
Atoi(s) ==
    LET signed == s # << >> /\ Head(s) \in {"+", "-"}
        digits == IF signed THEN Tail(s) ELSE s
        valid  == digits # << >> /\ \A i \in 1..Len(digits) : IsDigit(digits[i])
    IN  IF ~valid THEN [val |-> 0, err |-> TRUE]
        ELSE [val |-> IF signed /\ Head(s) = "-"
                      THEN 0 - DecimalValue(digits, 0)
                      ELSE DecimalValue(digits, 0),
              err |-> FALSE]

(***************************************************************************)
(* Tag.decompose                                                            *)
(***************************************************************************)
ArgPrefix == <<"a", "r", "g", ":">>
FlagPrefix == <<"f", "l", "a", "g", ":">>
DefaultPrefix == <<"d", "e", "f", "a", "u", "l", "t", ":">>

\* decomposeStep keeping the first value of a kind instead of the last
decomposeStepFirstWins(acc, c0) ==
    LET c == TrimSpace(c0)
        a == CutPrefix(c, ArgPrefix)
        f == CutPrefix(c, FlagPrefix)
        d == CutPrefix(c, DefaultPrefix)
    IN  IF a.found
        THEN (IF acc.arg = << >> THEN [acc EXCEPT !.arg = TrimSpace(a.after)] ELSE acc)
        ELSE IF f.found
        THEN (IF acc.flag = << >> THEN [acc EXCEPT !.flag = TrimSpace(f.after)] ELSE acc)
        ELSE IF d.found
        THEN (IF acc.def = << >> THEN [acc EXCEPT !.def = TrimSpace(d.after)] ELSE acc)
        ELSE acc

\* decomposeStep storing the whole component, its prefix not cut off
decomposeStepKeepsPrefix(acc, c0) ==
    LET c == TrimSpace(c0)
    IN  IF HasPrefix(c, ArgPrefix) THEN [acc EXCEPT !.arg = c]
        ELSE IF HasPrefix(c, FlagPrefix) THEN [acc EXCEPT !.flag = c]
        ELSE IF HasPrefix(c, DefaultPrefix) THEN [acc EXCEPT !.def = c]
        ELSE acc

\* the body of the loop over components, for one component c
decomposeStep(acc, c0) ==
    LET c == TrimSpace(c0)
        a == CutPrefix(c, ArgPrefix)
        f == CutPrefix(c, FlagPrefix)
        d == CutPrefix(c, DefaultPrefix)
    IN  IF a.found THEN [acc EXCEPT !.arg = TrimSpace(a.after)]
        ELSE IF f.found THEN [acc EXCEPT !.flag = TrimSpace(f.after)]
        ELSE IF d.found THEN [acc EXCEPT !.def = TrimSpace(d.after)]
        ELSE acc

RECURSIVE decomposeLoop(_, _)
decomposeLoop(acc, components) ==
    IF components = << >> THEN acc
    ELSE decomposeLoop(decomposeStep(acc, Head(components)), Tail(components))

decompose(t) ==
    IF t = << >> THEN [arg |-> << >>, def |-> << >>, flag |-> << >>]
    ELSE decomposeLoop([arg |-> << >>, def |-> << >>, flag |-> << >>],
                       Split(t, ";"))

(***************************************************************************)
(* argRe and parseArg                                                       *)
(***************************************************************************)
NoMatch == [found |-> FALSE, m1 |-> << >>, m2 |-> << >>, m3 |-> << >>, m4 |-> << >>]

\* length of the run of digits of s that starts at i
RECURSIVE DigitRun(_, _)
DigitRun(s, i) ==
    IF i <= Len(s) /\ IsDigit(s[i]) THEN 1 + DigitRun(s, i + 1) ELSE 0

\* The ways `\[([^:]+)?(\:)?([^\]]+)?\]` matches s from an opening bracket at
\* i: <<a, c, b>> are the lengths of groups 2, 3 and 4 (0: the group did not
\* take part).
BracketMatches(s, i) ==
    {t \in (0..Len(s)) \X {0, 1} \X (0..Len(s)) :
        /\ i + t[1] + t[2] + t[3] + 1 <= Len(s)
        /\ \A k \in 1..t[1] : s[i + k] # ":"
        /\ t[2] = 1 => s[i + t[1] + 1] = ":"
        /\ \A k \in 1..t[3] : s[i + t[1] + t[2] + k] # "]"
        /\ s[i + t[1] + t[2] + t[3] + 1] = "]"}

\* Every quantifier of argRe is greedy, so of two matches the preferred one
\* has the longer group 2, then the colon, then the longer group 4.
Preferred(t, u) ==
    \/ t[1] > u[1]
    \/ t[1] = u[1] /\ t[2] > u[2]
    \/ t[1] = u[1] /\ t[2] = u[2] /\ t[3] >= u[3]

\* argRe matched at position i of s: `(\d+)` is tried first, then the
\* bracketed alternative.
argReAt(s, i) ==
    IF IsDigit(s[i])
    THEN [NoMatch EXCEPT !.found = TRUE,
                         !.m1 = SubSeq(s, i, i + DigitRun(s, i) - 1)]
    ELSE IF s[i] = "[" /\ BracketMatches(s, i) # {}
    THEN LET ms == BracketMatches(s, i)
             t == CHOOSE x \in ms : \A u \in ms : Preferred(x, u)
         IN  [found |-> TRUE, m1 |-> << >>,
              m2 |-> SubSeq(s, i + 1, i + t[1]),
              m3 |-> SubSeq(s, i + t[1] + 1, i + t[1] + t[2]),
              m4 |-> SubSeq(s, i + t[1] + t[2] + 1, i + t[1] + t[2] + t[3])]
    ELSE NoMatch

\* argRe.FindStringSubmatch(s): the leftmost match.  argRe has no anchors.
argRe(s) ==
    LET at == {i \in 1..Len(s) : argReAt(s, i).found}
    IN  IF at = {} THEN NoMatch
        ELSE argReAt(s, CHOOSE i \in at : \A j \in at : i <= j)

\* rangeOK with the end compared by >= : an empty range passes
rangeOKInclusive(start, end) == start >= 0 /\ (end = -1 \/ end >= start)

\* the last conjuncts of parseArg's final return
rangeOK(start, end) == start >= 0 /\ (end = -1 \/ end > start)

\* parseArg(tval, spec) with spec the zero ArgSpec, as Tag.Arg calls it:
\* the returned bool, and the fields of spec after the call.
parseArg(tval0) ==
    LET tval == TrimSpace(tval0)
        m == argRe(tval)
        plain == Atoi(m.m1)
        s == m.m2
        r == m.m3
        e == m.m4
        sconv == Atoi(s)
        econv == Atoi(e)
        \* err and spec.Start after the "if s == ..." statement
        err1 == IF s = << >> THEN FALSE ELSE sconv.err
        start == IF s = << >> \/ sconv.err THEN 0 ELSE sconv.val
        \* err and spec.End after the "if e == ..." statement: a non-empty e
        \* assigns err anew
        err2 == IF e = << >> THEN err1 ELSE econv.err
        end == IF e = << >> THEN -1 ELSE IF econv.err THEN 0 ELSE econv.val
    IN  IF tval = << >> THEN [ok |-> FALSE, Start |-> 0, End |-> 0]
        ELSE IF ~m.found THEN [ok |-> FALSE, Start |-> 0, End |-> 0]
        ELSE IF m.m1 # << >> /\ ~plain.err
        THEN [ok |-> TRUE, Start |-> plain.val, End |-> 0]
        ELSE IF s = << >> /\ r = << >> /\ e = << >>
        THEN [ok |-> FALSE, Start |-> 0, End |-> 0]
        ELSE IF r = << >> THEN [ok |-> ~err1, Start |-> start, End |-> 0]
        ELSE [ok |-> ~err2 /\ rangeOK(start, end), Start |-> start, End |-> end]

\* Tag.Arg
Arg(t) ==
    LET arg == decompose(t).arg
        p == parseArg(arg)
    IN  IF arg = << >> THEN [ok |-> FALSE, spec |-> Nil]
        ELSE IF p.ok THEN [ok |-> TRUE, spec |-> [Start |-> p.Start, End |-> p.End]]
        ELSE [ok |-> FALSE, spec |-> Nil]

(***************************************************************************)
(* The tags Tag.Arg is called on.                                           *)
(***************************************************************************)
DigitChars == <<"0", "1", "2", "3", "4", "5", "6", "7", "8", "9">>

\* the decimal text of a non-negative integer
RECURSIVE Digits(_)
Digits(n) ==
    IF n < 10 THEN <<DigitChars[n + 1]>>
    ELSE Digits(n \div 10) \o <<DigitChars[(n % 10) + 1]>>

ArgAlphabet == {"0", "1", "2", "[", "]", ":", "-", "x"}

Strings(alphabet, n) == UNION {[1..k -> alphabet] : k \in 0..n}

Nums == 0..MaxNum

\* "arg:N"
PlainTag(n) == ArgPrefix \o Digits(n)
\* "arg:[N]"
IndexTag(n) == ArgPrefix \o <<"[">> \o Digits(n) \o <<"]">>
\* "arg:[S:E]", "arg:[:E]", "arg:[S:]", "arg:[:]", "arg:[]"
RangeTag(s, e) == ArgPrefix \o <<"[">> \o Digits(s) \o <<":">> \o Digits(e) \o <<"]">>
ToTag(e) == ArgPrefix \o <<"[", ":">> \o Digits(e) \o <<"]">>
FromTag(s) == ArgPrefix \o <<"[">> \o Digits(s) \o <<":", "]">>
AllTag == ArgPrefix \o <<"[", ":", "]">>
EmptyBracketsTag == ArgPrefix \o <<"[", "]">>

ArgTags ==
    {ArgPrefix \o b : b \in Strings(ArgAlphabet, MaxArgLen)}
    \cup {PlainTag(n) : n \in Nums} \cup {IndexTag(n) : n \in Nums}
    \cup {RangeTag(s, e) : s \in Nums, e \in Nums}
    \cup {ToTag(e) : e \in Nums} \cup {FromTag(s) : s \in Nums}
    \cup {ArgPrefix \o <<"[", "-", "1", ":", "3", "]">>,
          ArgPrefix \o <<"[", "2", ":", "-", "1", "]">>,
          ArgPrefix \o <<"[", "x", ":", "3", "]">>,
          ArgPrefix \o <<"[", "2", ":", "x", "]">>}

NoFile == [status |-> "none"]

InitArg ==
    /\ tag \in ArgTags
    /\ tagRet = NoCall
    /\ src = NoFile /\ typeName = << >> /\ ret = NoCall /\ log = << >>
    /\ prev = NoCall

CallArg ==
    /\ tagRet = NoCall
    /\ tagRet' = [op |-> "Arg", ok |-> Arg(tag).ok, spec |-> Arg(tag).spec]
    /\ UNCHANGED <<tag, src, typeName, ret, log, prev>>

NextArg == CallArg

SpecArg == InitArg /\ [][NextArg]_vars

(***************************************************************************)
(* Claims about Tag.Arg, checked under SpecArg.                             *)
(***************************************************************************)
ArgCalled == tagRet # NoCall /\ tagRet.op = "Arg"

\* C5: for every non-negative N, Arg on "arg:N" and on "arg:[N]" is ok with
\* ArgSpec{Start: N, End: N}.
C5_SinglePositionStartEqualsEnd ==
    ArgCalled =>
        \A n \in Nums :
            tag \in {PlainTag(n), IndexTag(n)} =>
                tagRet.ok /\ tagRet.spec = [Start |-> n, End |-> n]

\* C6: "arg:[S:E]" is ok with {S, E} iff E > S; "arg:[:E]" is ok with {0, E}
\* iff E > 0; "arg:[S:]" is ok with {S, -1}; "arg:[:]" is ok with {0, -1};
\* "arg:[]" is not ok.
C6_RangeForms ==
    ArgCalled =>
        /\ \A s \in Nums, e \in Nums :
              tag = RangeTag(s, e) =>
                  /\ tagRet.ok <=> e > s
                  /\ tagRet.ok => tagRet.spec = [Start |-> s, End |-> e]
        /\ \A e \in Nums :
              tag = ToTag(e) =>
                  /\ tagRet.ok <=> e > 0
                  /\ tagRet.ok => tagRet.spec = [Start |-> 0, End |-> e]
        /\ \A s \in Nums :
              tag = FromTag(s) =>
                  tagRet.ok /\ tagRet.spec = [Start |-> s, End |-> -1]
        /\ tag = AllTag => tagRet.ok /\ tagRet.spec = [Start |-> 0, End |-> -1]
        /\ tag = EmptyBracketsTag => ~tagRet.ok

\* an equal range was given and rejected
C6_Witness == ArgCalled /\ tag = RangeTag(3, 3) /\ ~tagRet.ok

AllDigits(s) == \A i \in 1..Len(s) : IsDigit(s[i])

\* The arg values C7 admits: in its entirety a bare non-negative integer, or
\* brackets around a start and an end, each empty or a non-negative
\* integer, with at most one colon between them.
WellFormedArg(v) ==
    \/ v # << >> /\ AllDigits(v)
    \/ /\ Len(v) >= 2 /\ v[1] = "[" /\ v[Len(v)] = "]"
       /\ LET inner == SubSeq(v, 2, Len(v) - 1)
              parts == Split(inner, ":")
          IN  Len(parts) <= 2 /\ \A i \in 1..Len(parts) : AllDigits(parts[i])

\* C7: Arg is not ok for every arg value that is not well formed.
C7_MalformedRejected ==
    ArgCalled => (~WellFormedArg(decompose(tag).arg) => ~tagRet.ok)

\* C8: every ArgSpec returned with ok has Start >= 0.
C8_StartNonNegative ==
    ArgCalled => (tagRet.ok => tagRet.spec.Start >= 0)

(***************************************************************************)
(* The tags Tag.decompose is called on: up to MaxComps components joined    *)
(* with ';'.                                                                *)
(***************************************************************************)
Components ==
    { ArgPrefix \o <<"F">>,
      ArgPrefix,
      <<" ">> \o ArgPrefix \o <<" ", "A", " ", "B", " ">>,
      ArgPrefix \o <<"Q">>,
      FlagPrefix \o <<"Z">>,
      FlagPrefix \o <<" ">>,
      DefaultPrefix \o <<"R">>,
      DefaultPrefix \o <<"\t", "4", "2", "\n">>,
      <<"n", "o", "n", ":", "X">>,
      <<"A", "r", "g", ":", "X">>,
      <<"x">> \o ArgPrefix \o <<"1">>,
      <<" ">>,
      << >> }

RECURSIVE Join(_)
Join(cs) ==
    IF cs = << >> THEN << >>
    ELSE IF Len(cs) = 1 THEN cs[1]
    ELSE cs[1] \o <<";">> \o Join(Tail(cs))

DecomposeTags == {Join(cs) : cs \in UNION {[1..k -> Components] : k \in 0..MaxComps}}

InitTag ==
    /\ tag \in DecomposeTags
    /\ tagRet = NoCall
    /\ src = NoFile /\ typeName = << >> /\ ret = NoCall /\ log = << >>
    /\ prev = NoCall

CallDecompose ==
    /\ tagRet = NoCall
    /\ tagRet' = [op |-> "decompose", arg |-> decompose(tag).arg,
                  def |-> decompose(tag).def, flag |-> decompose(tag).flag]
    /\ UNCHANGED <<tag, src, typeName, ret, log, prev>>

NextTag == CallDecompose

SpecTag == InitTag /\ [][NextTag]_vars

(***************************************************************************)
(* Claims about Tag.decompose, checked under SpecTag.                       *)
(***************************************************************************)
DecomposeCalled == tagRet # NoCall /\ tagRet.op = "decompose"

Triple(r) == <<r.arg, r.def, r.flag>>

\* the kind of a component: the prefix its trimmed text starts with
KindOf(c) ==
    IF HasPrefix(TrimSpace(c), ArgPrefix) THEN "arg"
    ELSE IF HasPrefix(TrimSpace(c), DefaultPrefix) THEN "default"
    ELSE IF HasPrefix(TrimSpace(c), FlagPrefix) THEN "flag"
    ELSE "other"

\* the trimmed value of the last component of kind k with prefix p
LastValue(cs, k, p) ==
    LET at == {i \in 1..Len(cs) : KindOf(cs[i]) = k}
        last == CHOOSE i \in at : \A j \in at : j <= i
        c == TrimSpace(cs[last])
    IN  IF at = {} THEN << >>
        ELSE TrimSpace(SubSeq(c, Len(p) + 1, Len(c)))

Without(cs, i) == SubSeq(cs, 1, i - 1) \o SubSeq(cs, i + 1, Len(cs))

Swapped(cs, i) ==
    [j \in 1..Len(cs) |-> IF j = i THEN cs[i + 1] ELSE IF j = i + 1 THEN cs[i] ELSE cs[j]]

\* C9: decompose returns, for each of arg/default/flag, the trimmed value of
\* the last component whose trimmed text starts with that prefix (empty if
\* none); dropping a component of another prefix, or swapping neighbours of
\* different kinds, does not change the result.
C9_LastOfEachKind ==
    DecomposeCalled =>
        LET cs == Split(tag, ";")
        IN  /\ tagRet.arg = LastValue(cs, "arg", ArgPrefix)
            /\ tagRet.def = LastValue(cs, "default", DefaultPrefix)
            /\ tagRet.flag = LastValue(cs, "flag", FlagPrefix)
            /\ \A i \in 1..Len(cs) :
                  (KindOf(cs[i]) = "other" /\ Len(cs) > 1) =>
                      Triple(decompose(Join(Without(cs, i)))) = Triple(tagRet)
            /\ \A i \in 1..(Len(cs) - 1) :
                  KindOf(cs[i]) # KindOf(cs[i + 1]) =>
                      Triple(decompose(Join(Swapped(cs, i)))) = Triple(tagRet)

\* two arg components, the later one wins; an unknown one between them
C9_Witness ==
    /\ DecomposeCalled
    /\ tag = Join(<<ArgPrefix \o <<"F">>, <<"n", "o", "n", ":", "X">>, ArgPrefix \o <<"Q">> >>)
    /\ tagRet.arg = <<"Q">>

\* "arg:a;default:d;flag:f"
Reserialize(r) ==
    ArgPrefix \o r.arg \o <<";">> \o DefaultPrefix \o r.def \o <<";">> \o FlagPrefix \o r.flag

IsString(s) == DOMAIN s = 1..Len(s)

\* C10: decompose returns a triple for every tag, and decompose of the
\* re-serialized triple "arg:a;default:d;flag:f" returns the same triple.
C10_ReserializeIdempotent ==
    DecomposeCalled =>
          /\ IsString(tagRet.arg) /\ IsString(tagRet.def) /\ IsString(tagRet.flag)
          /\ Triple(decompose(Reserialize(tagRet))) = Triple(tagRet)

\* a value with inner and outer whitespace went through
C10_Witness ==
    /\ DecomposeCalled
    /\ tagRet.arg = <<"A", " ", "B">>
    /\ tagRet.def = <<"4", "2">>

(***************************************************************************)
(* strcase.ToKebab, as commandName uses it                                  *)
(***************************************************************************)
UpperChars == <<"A", "B", "C", "D", "E", "F", "G", "H", "I", "J", "K", "L", "M", "N", "O", "P", "Q", "R", "S", "T", "U", "V", "W", "X", "Y", "Z">>
LowerChars == <<"a", "b", "c", "d", "e", "f", "g", "h", "i", "j", "k", "l", "m", "n", "o", "p", "q", "r", "s", "t", "u", "v", "w", "x", "y", "z">>

IsUpper(c) == \E i \in 1..26 : UpperChars[i] = c
IsLower(c) == \E i \in 1..26 : LowerChars[i] = c
ToLowerChar(c) ==
    IF IsUpper(c) THEN LowerChars[CHOOSE i \in 1..26 : UpperChars[i] = c] ELSE c

\* What ToKebab writes for the byte at i of s: the byte in lower case, with
\* a '-' after it where the next byte changes between letter case and
\* digit, a '-' before the last capital of an acronym, and '-' for a
\* space, '_', '-' or '.'.
KebabAt(s, i) ==
    LET v == s[i]
        low == ToLowerChar(v)
        hasNext == i + 1 <= Len(s)
        next == s[i + 1]
        vIsCap == IsUpper(v)
        vIsLow == IsLower(v)
        vIsNum == IsDigit(v)
        changes == /\ hasNext
                   /\ \/ vIsCap /\ (IsLower(next) \/ IsDigit(next))
                      \/ vIsLow /\ (IsUpper(next) \/ IsDigit(next))
                      \/ vIsNum /\ (IsUpper(next) \/ IsLower(next))
    IN  IF changes
        THEN (IF vIsCap /\ IsLower(next) /\ i > 1 /\ IsUpper(s[i - 1])
              THEN <<"-">> ELSE << >>)
             \o <<low>>
             \o (IF vIsLow \/ vIsNum \/ IsDigit(next) THEN <<"-">> ELSE << >>)
        ELSE IF v \in {" ", "_", "-", "."} THEN <<"-">>
        ELSE <<low>>

RECURSIVE KebabFrom(_, _)
KebabFrom(s, i) ==
    IF i > Len(s) THEN << >> ELSE KebabAt(s, i) \o KebabFrom(s, i + 1)

ToKebab(s) == KebabFrom(TrimSpace(s), 1)

\* commandName that returns the package name as it is
commandNameVerbatim(pkg) == pkg

commandName(pkg) == ToKebab(pkg)

(***************************************************************************)
(* sanitizeHelp                                                             *)
(***************************************************************************)
PackageMarker == <<"P", "a", "c", "k", "a", "g", "e", " ">>

\* the characters `\s` of whitespaceRunsRe matches
IsReSpace(c) == c \in {" ", "\t", "\n"}

\* whitespaceRunsRe replacing nothing
CollapseRunsNone(s) == s

\* whitespaceRunsRe.ReplaceAllLiteralString(s, " ")
RECURSIVE CollapseRuns(_)
CollapseRuns(s) ==
    IF s = << >> THEN << >>
    ELSE IF IsReSpace(Head(s))
    THEN (IF Len(s) > 1 /\ IsReSpace(s[2])
          THEN CollapseRuns(Tail(s))
          ELSE <<" ">> \o CollapseRuns(Tail(s)))
    ELSE <<Head(s)>> \o CollapseRuns(Tail(s))

\* the text returned, and the warnings logged
sanitizeHelp(doc0, pkg, cmd) ==
    LET cut == CutPrefix(doc0, PackageMarker)
        doc == cut.after
        warn1 == IF cut.found THEN << >>
                 ELSE <<"Package doc comment is malformed; proceeding anyway">>
        \* strings.Replace(doc, pkg, cmd, 1) where doc begins with pkg
        replaced == IF HasPrefix(doc, pkg)
                    THEN cmd \o SubSeq(doc, Len(pkg) + 1, Len(doc))
                    ELSE doc
    IN  IF doc = << >>
        THEN [text |-> << >>, log |-> warn1 \o <<"Package has no doc comment">>]
        ELSE [text |-> TrimSpace(CollapseRuns(replaced)), log |-> warn1]

(***************************************************************************)
(* compileInputs and Command.Compile                                        *)
(***************************************************************************)
NoTag == [has |-> FALSE]

\* IsExported taking every name for exported
IsExportedAny(name) == TRUE

\* ast.Ident.IsExported
IsExported(name) == name # << >> /\ IsUpper(name[1])

\* reflect.StructTag.Lookup over the key:"value" pairs of a struct tag.  A
\* pair's key is never empty, so the empty key is never found.
Lookup(pairs, key) ==
    LET at == {i \in 1..Len(pairs) : pairs[i].key = key}
    IN  IF key = << >> \/ at = {} THEN [value |-> << >>, ok |-> FALSE]
        ELSE [value |-> pairs[CHOOSE i \in at : \A j \in at : i <= j].value,
              ok |-> TRUE]

\* the key compileInputs looks up in a field's struct tag
TagKey == << >>

\* fmt.Sprintf("%s", field.Type): an identifier prints its name, any other
\* expression prints as a struct of its fields
TypeText(typ) ==
    IF typ.kind = "ident" THEN typ.name
    ELSE <<"&", "{">> \o typ.name \o <<"}">>

\* the CommandInput appended for a field that is not skipped
compileField(field, name) ==
    LET stag == IF field.tag.has THEN field.tag.pairs ELSE << >>
        found == Lookup(stag, TagKey)
    IN  [FieldName |-> name,
         Tag |-> IF found.ok THEN found.value ELSE << >>,
         Doc |-> field.doc,
         Type |-> TypeText(field.type)]

\* One pass of the loop over st.Fields.List: name is the variable declared
\* before the loop, inputs the result so far.
RECURSIVE compileLoop(_, _, _)
compileLoop(fields, name, inputs) ==
    IF fields = << >> THEN inputs
    ELSE LET field == Head(fields)
             n == Len(field.names)
         IN  IF n = 0 \/ n > 1 THEN compileLoop(Tail(fields), name, inputs)
             ELSE IF ~IsExported(field.names[1])
             THEN compileLoop(Tail(fields), name, inputs)
             ELSE compileLoop(Tail(fields), field.names[1],
                              Append(inputs, compileField(field, field.names[1])))

compileInputs(fields) == compileLoop(fields, << >>, << >>)

\* Command.Compile on the TypeSpec node x: meta afterwards.  (On every other
\* node of the declaration Compile changes nothing and returns true.)
Compile(meta, x) ==
    IF x.name # meta.typ THEN meta
    ELSE IF x.kind = "struct"
    THEN [meta EXCEPT !.Inputs = @ \o compileInputs(x.fields)]
    ELSE meta

(***************************************************************************)
(* FromFile                                                                 *)
(***************************************************************************)
ReadFailedLog == <<"Failed reading">>
TypeNotFoundLog == <<"Type not found in file">>

\* the parse failure logged with the message of the missing type
ParseFailedLogSameAsNotFound == TypeNotFoundLog

ParseFailedLog == <<"Failed creating AST from file">>

\* pkg.Types of doc.NewFromFiles in its default mode: the exported types
DocTypes(file) == SelectSeq(file.types, LAMBDA ty : IsExported(ty.name))

\* the loop over pkg.Types: the first type named name, or Nil
findType(types, name) ==
    LET at == {i \in 1..Len(types) : types[i].name = name}
    IN  IF at = {} THEN Nil ELSE types[CHOOSE i \in at : \A j \in at : i <= j]

\* the returned *Command (or Nil), and the records logged
FromFile(from, name) ==
    IF from.status = "unreadable" THEN [ret |-> Nil, log |-> ReadFailedLog]
    ELSE IF from.status = "unparsable" THEN [ret |-> Nil, log |-> ParseFailedLog]
    ELSE LET ourType == findType(DocTypes(from), name)
             cmdActual == commandName(from.pkgName)
             help == sanitizeHelp(from.pkgDoc, from.pkgName, cmdActual)
             meta == [Name |-> cmdActual,
                      Package |-> from.pkgName,
                      Type |-> ourType.name,
                      Help |-> help.text,
                      Description |-> TrimSpace(ourType.doc),
                      Inputs |-> << >>,
                      typ |-> << >>]
         IN  IF ourType = Nil THEN [ret |-> Nil, log |-> TypeNotFoundLog]
             ELSE [ret |-> Compile(meta, ourType), log |-> help.log]

(***************************************************************************)
(* The files and type names FromFile is called on.                          *)
(***************************************************************************)
Ident(n) == [kind |-> "ident", name |-> n]

TesterName == <<"T", "e", "s", "t", "e", "r">>
OtherName == <<"O", "t", "h", "e", "r">>
LowerName == <<"t", "e", "s", "t", "e", "r">>

\* the shapes of a struct field: embedded, two names, unexported, exported
\* with a doc comment, exported with a struct tag and a slice type
FieldPool ==
    { [names |-> << >>, doc |-> << >>, tag |-> NoTag, type |-> Ident(<<"B", "a", "s", "e">>)],
      [names |-> <<<<"A">>, <<"B">>>>, doc |-> << >>, tag |-> NoTag, type |-> Ident(<<"i", "n", "t">>)],
      [names |-> <<<<"h", "i", "d">>>>, doc |-> << >>, tag |-> NoTag, type |-> Ident(<<"i", "n", "t">>)],
      [names |-> <<<<"S", "t", "r", "i", "n", "g">>>>, doc |-> <<"S", "t", "r", "i", "n", "g", " ", "c", "o", "m", "m", "a", "n", "d", " ", "i", "n", "p", "u", "t", ".", "\n">>, tag |-> NoTag,
       type |-> Ident(<<"s", "t", "r", "i", "n", "g">>)],
      [names |-> <<<<"N", "u", "m", "s">>>>, doc |-> << >>,
       tag |-> [has |-> TRUE, pairs |-> <<[key |-> <<"c", "l", "i">>, value |-> <<"a", "r", "g", ":", "1">>]>>],
       type |-> [kind |-> "array", name |-> <<"i", "n", "t">>]] }

FieldLists == UNION {[1..k -> FieldPool] : k \in 0..MaxFields}

TypeDocs == {<< >>, <<"T", "e", "s", "t", "e", "r", " ", "i", "s", " ", "a", " ", "t", "e", "s", "t", ".", "\n">>}

\* the declarations of a type named n
TypeDecls(n) ==
    {[name |-> n, doc |-> d, kind |-> "struct", fields |-> fs] :
        d \in TypeDocs, fs \in FieldLists}
    \cup {[name |-> n, doc |-> d, kind |-> "other", fields |-> << >>] : d \in TypeDocs}

OtherDecl ==
    [name |-> OtherName, doc |-> << >>, kind |-> "struct",
     fields |-> <<[names |-> <<<<"F", "l", "a", "g">>>>, doc |-> << >>, tag |-> NoTag,
                  type |-> Ident(<<"b", "o", "o", "l">>)]>>]

LowerDecl ==
    [name |-> LowerName, doc |-> << >>, kind |-> "struct", fields |-> << >>]

\* the type declarations of a file; a parsed file declares a name only once
TypeLists ==
    {<< >>, <<LowerDecl>>}
    \cup {<<ty>> : ty \in TypeDecls(TesterName)}
    \cup {<<OtherDecl, ty>> : ty \in TypeDecls(TesterName)}

\* package name and package doc comment
Packages ==
    { [name |-> <<"s", "i", "m", "p", "l", "e">>, doc |-> <<"P", "a", "c", "k", "a", "g", "e", " ", "s", "i", "m", "p", "l", "e", " ", "i", "s", " ", "a", " ", "s", "i", "m", "p", "l", "e", " ", "t", "e", "s", "t", ".", "\n">>],
      [name |-> <<"s", "i", "m", "p", "l", "e">>, doc |-> << >>],
      [name |-> <<"m", "y", "_", "c", "l", "i">>, doc |-> <<"P", "a", "c", "k", "a", "g", "e", " ", "m", "y", "_", "c", "l", "i", " ", " ", "r", "u", "n", "s", "\n", "i", "t", ".", "\n">>],
      [name |-> <<"h", "t", "t", "p", "D">>, doc |-> <<"h", "t", "t", "p", "D", " ", "s", "e", "r", "v", "e", "s", " ", "h", "t", "t", "p", "D", ".", "\n">>] }

Unreadable == [status |-> "unreadable"]
Unparsable == [status |-> "unparsable"]

Files ==
    {Unreadable, Unparsable}
    \cup {[status |-> "ok", pkgName |-> p.name, pkgDoc |-> p.doc, types |-> tys] :
             p \in Packages, tys \in TypeLists}

TypeNames == {TesterName, OtherName, LowerName}

InitFile ==
    /\ src \in Files
    /\ typeName \in TypeNames
    /\ ret = NoCall /\ log = << >> /\ prev = NoCall
    /\ tag = << >> /\ tagRet = NoCall

\* the call of FromFile(src, typeName)
CallFromFile ==
    /\ src # NoFile /\ ret = NoCall
    /\ ret' = FromFile(src, typeName).ret
    /\ log' = FromFile(src, typeName).log
    /\ UNCHANGED <<src, typeName, prev, tag, tagRet>>

\* whether the file parses and declares no type FromFile finds under name
TypeMissing(file, name) ==
    file # NoFile /\ file.status = "ok" /\ findType(DocTypes(file), name) = Nil

\* The caller keeps what its first call was given and what it got ...
Keep ==
    /\ ret # NoCall /\ prev = NoCall
    /\ prev' = [unparsable |-> src.status = "unparsable",
                missing |-> TypeMissing(src, typeName),
                ret |-> ret, log |-> log]
    /\ src' = NoFile /\ typeName' = << >>
    /\ ret' = NoCall /\ log' = << >>
    /\ UNCHANGED <<tag, tagRet>>

\* ... and takes another file and type name for its second call.
Open ==
    /\ src = NoFile /\ prev # NoCall
    /\ src' \in Files
    /\ typeName' \in TypeNames
    /\ UNCHANGED <<ret, log, prev, tag, tagRet>>

NextFile == CallFromFile \/ Keep \/ Open

SpecFile == InitFile /\ [][NextFile]_vars

(***************************************************************************)
(* Claims about FromFile, checked under SpecFile.                           *)
(***************************************************************************)
Returned == ret # NoCall
Succeeded == Returned /\ ret # Nil

\* the declaration FromFile finds for typeName
Target == findType(DocTypes(src), typeName)

\* the names of the exported, single-named fields, in declaration order
RECURSIVE EligibleNames(_)
EligibleNames(fields) ==
    IF fields = << >> THEN << >>
    ELSE (IF Len(Head(fields).names) = 1 /\ IsExported(Head(fields).names[1])
          THEN <<Head(fields).names[1]>> ELSE << >>)
         \o EligibleNames(Tail(fields))

\* C1: when FromFile succeeds for a struct type, Inputs holds exactly one
\* CommandInput per exported, single-named field, in declaration order.
C1_InputsPerEligibleField ==
    (Succeeded /\ Target.kind = "struct") =>
        /\ Len(ret.Inputs) = Len(EligibleNames(Target.fields))
        /\ \A i \in 1..Len(ret.Inputs) :
              ret.Inputs[i].FieldName = EligibleNames(Target.fields)[i]

\* C2: when FromFile succeeds, Name is the kebab-case package name, Package
\* the package name, Type the requested type name, Help the sanitized
\* package doc and Description the trimmed doc comment of the type.
C2_CommandFields ==
    Succeeded =>
        /\ ret.Name = ToKebab(src.pkgName)
        /\ ret.Package = src.pkgName
        /\ ret.Type = typeName
        /\ ret.Help = sanitizeHelp(src.pkgDoc, src.pkgName, ToKebab(src.pkgName)).text
        /\ ret.Description = TrimSpace(Target.doc)
        /\ ret.Description = << >> \/
              (~IsSpace(ret.Description[1])
               /\ ~IsSpace(ret.Description[Len(ret.Description)]))

\* package my_cli, doc "Package my_cli  runs\nit.\n", type doc "Tester is a test.\n"
C2_Witness ==
    /\ Succeeded
    /\ ret.Name = <<"m", "y", "-", "c", "l", "i">>
    /\ ret.Package = <<"m", "y", "_", "c", "l", "i">>
    /\ ret.Help = <<"m", "y", "-", "c", "l", "i", " ", "r", "u", "n", "s", " ", "i", "t", ".">>
    /\ ret.Type = TesterName
    /\ ret.Description = <<"T", "e", "s", "t", "e", "r", " ", "i", "s", " ", "a", " ", "t", "e", "s", "t", ".">>

\* C3: FromFile returns nil when the source cannot be read or parsed, when
\* no type named typeName exists, and when that type is not a struct.
C3_NilOnEveryFailure ==
    Returned =>
        /\ src.status # "ok" => ret = Nil
        /\ TypeMissing(src, typeName) => ret = Nil
        /\ (src.status = "ok" /\ Target # Nil /\ Target.kind # "struct") => ret = Nil

\* C4: what FromFile returns for an unparsable source differs from what it
\* returns when the source parses and the type is not found.
C4_OutcomesDistinguishable ==
    (Returned /\ prev # NoCall) =>
        /\ (prev.unparsable /\ TypeMissing(src, typeName)) => prev.ret # ret
        /\ (prev.missing /\ src.status = "unparsable") => prev.ret # ret

\* C4 as amended: FromFile returns nil in both cases, and only the warning
\* it logs tells them apart.
C4_SameNilDifferentLog ==
    (Returned /\ prev # NoCall) =>
        /\ (prev.unparsable /\ TypeMissing(src, typeName)) =>
              prev.ret = Nil /\ ret = Nil /\ prev.log # log
        /\ (prev.missing /\ src.status = "unparsable") =>
              prev.ret = Nil /\ ret = Nil /\ prev.log # log

\* an unparsable file first, then a file without the type
C4_Witness ==
    /\ Returned /\ prev # NoCall
    /\ prev.unparsable /\ TypeMissing(src, typeName)
    /\ ret = Nil /\ prev.ret = Nil

(***************************************************************************)
(* Tag.Default                                                              *)
(***************************************************************************)
\* Tag.Default without the test for an empty value
DefaultAlwaysOk(t) == [value |-> decompose(t).def, ok |-> TRUE]

\* Tag.Default: (value, ok)
Default(t) ==
    LET def == decompose(t).def
    IN  IF def # << >> THEN [value |-> def, ok |-> TRUE]
        ELSE [value |-> << >>, ok |-> FALSE]

\* the components of the tags Tag.Default is called on
DefaultComponents ==
    { DefaultPrefix \o <<"4", "2">>,
      DefaultPrefix \o <<"\"", "f", "o", "o", "\"">>,
      DefaultPrefix \o <<" ", "a", " ", "b", " ">>,
      DefaultPrefix,
      DefaultPrefix \o <<" ", " ">>,
      <<" ">> \o DefaultPrefix \o <<"x">>,
      <<"D", "e", "f", "a", "u", "l", "t", ":", "x">>,
      ArgPrefix \o <<"1">>,
      << >> }

DefaultTags ==
    {Join(cs) : cs \in UNION {[1..k -> DefaultComponents] : k \in 0..MaxComps}}

InitDefault ==
    /\ tag \in DefaultTags
    /\ tagRet = NoCall
    /\ src = NoFile /\ typeName = << >> /\ ret = NoCall /\ log = << >>
    /\ prev = NoCall

CallDefault ==
    /\ tagRet = NoCall
    /\ tagRet' = [op |-> "Default", value |-> Default(tag).value, ok |-> Default(tag).ok]
    /\ UNCHANGED <<tag, src, typeName, ret, log, prev>>

NextDefault == CallDefault

SpecDefault == InitDefault /\ [][NextDefault]_vars

(***************************************************************************)
(* Claims about Tag.Default, checked under SpecDefault.                     *)
(***************************************************************************)
DefaultCalled == tagRet # NoCall /\ tagRet.op = "Default"

\* whether the tag has a default directive
HasDefault(cs) == \E i \in 1..Len(cs) : KindOf(cs[i]) = "default"

\* the text written after the prefix of the last default directive, as it
\* stands in the tag
WrittenDefault(cs) ==
    LET at == {i \in 1..Len(cs) : KindOf(cs[i]) = "default"}
        c == TrimLeft(cs[CHOOSE i \in at : \A j \in at : j <= i])
    IN  IF at = {} THEN << >>
        ELSE SubSeq(c, Len(DefaultPrefix) + 1, Len(c))

\* C11: Default returns the text written after the default: prefix
\* verbatim, and is not ok only when the tag has no default directive or the
\* directive's value is the empty string.
C11_DefaultVerbatim ==
    DefaultCalled =>
        LET cs == Split(tag, ";")
        IN  /\ tagRet.ok <=> (HasDefault(cs) /\ WrittenDefault(cs) # << >>)
            /\ tagRet.ok => tagRet.value = WrittenDefault(cs)

\* C11 as amended: Default returns the text written after the default:
\* prefix with its leading and trailing whitespace trimmed and nothing else
\* changed, and is not ok only when the tag has no default directive or the
\* trimmed value is empty.
C11_DefaultTrimmed ==
    DefaultCalled =>
        LET cs == Split(tag, ";")
        IN  /\ tagRet.ok <=> (HasDefault(cs) /\ TrimSpace(WrittenDefault(cs)) # << >>)
            /\ tagRet.ok => tagRet.value = TrimSpace(WrittenDefault(cs))
            /\ ~tagRet.ok => tagRet.value = << >>

\* the value " a b " came back as "a b"
C11_Witness ==
    /\ DefaultCalled
    /\ tag = DefaultPrefix \o <<" ", "a", " ", "b", " ">>
    /\ tagRet.ok /\ tagRet.value = <<"a", " ", "b">>

(***************************************************************************)
(* flagRe, parseFlag and Tag.Flag                                           *)
(***************************************************************************)
\* longest free-form flag value, in characters
MaxFlagLen == 4

IsLetter(c) == IsUpper(c) \/ IsLower(c)

\* the class [a-zA-Z0-9_-] of flagRe
IsLongChar(c) == IsLetter(c) \/ IsDigit(c) \/ c \in {"_", "-"}

\* the class [a-zA-z] of flagRe: the range A-z spans the letters and the six
\* characters between 'Z' and 'a' (the grave accent, U+0060, is written
\* "grave" here)
IsShortChar(c) == IsLetter(c) \/ c \in {"[", "\\", "]", "^", "_", "grave"}

\* whether s matches `[a-zA-Z][a-zA-Z0-9_-]+`
IsLongName(s) ==
    /\ Len(s) >= 2
    /\ IsLetter(s[1])
    /\ \A i \in 2..Len(s) : IsLongChar(s[i])

\* s with its leading characters of the class `\s` removed
RECURSIVE SkipReSpace(_)
SkipReSpace(s) ==
    IF s # << >> /\ IsReSpace(Head(s)) THEN SkipReSpace(Tail(s)) ELSE s

NoFlagMatch == [found |-> FALSE, m1 |-> << >>, m2 |-> << >>]

\* flagRe.FindStringSubmatch(s).  flagRe is anchored at both ends, and the
\* long name holds no comma, so the first comma of s (if any) ends it.
flagRe(s) ==
    LET commas == {i \in 1..Len(s) : s[i] = ","}
        comma == CHOOSE i \in commas : \A j \in commas : i <= j
        long == SubSeq(s, 1, comma - 1)
        short == SkipReSpace(SubSeq(s, comma + 1, Len(s)))
    IN  IF commas = {}
        THEN (IF IsLongName(s) THEN [found |-> TRUE, m1 |-> s, m2 |-> << >>]
              ELSE NoFlagMatch)
        ELSE IF IsLongName(long) /\ Len(short) = 1 /\ IsShortChar(short[1])
        THEN [found |-> TRUE, m1 |-> long, m2 |-> short]
        ELSE NoFlagMatch

\* parseFlag(tval, spec): the returned bool and the fields of spec
parseFlag(tval0) ==
    LET tval == TrimSpace(tval0)
        m == flagRe(tval)
    IN  IF tval = << >> \/ ~m.found THEN [ok |-> FALSE, Long |-> << >>, Short |-> << >>]
        ELSE [ok |-> TRUE, Long |-> m.m1, Short |-> m.m2]

\* Tag.Flag
Flag(t) ==
    LET flag == decompose(t).flag
        p == parseFlag(flag)
    IN  IF flag = << >> THEN [ok |-> FALSE, spec |-> Nil]
        ELSE IF p.ok THEN [ok |-> TRUE, spec |-> [Long |-> p.Long, Short |-> p.Short]]
        ELSE [ok |-> FALSE, spec |-> Nil]

FlagAlphabet == {"f", "B", "1", "_", "-", ",", "^", " "}

FlagTags ==
    {FlagPrefix \o b : b \in Strings(FlagAlphabet, MaxFlagLen)}
    \cup {FlagPrefix \o <<"f", "o", "o">>, FlagPrefix \o <<"f", "o", "o", ",", "F">>, FlagPrefix \o <<"f", ",", "b">>,
          FlagPrefix \o <<"f", "o", "o", ",", "b", "a", "r">>, FlagPrefix \o <<"f", "o", "o", ",", "[">>,
          DefaultPrefix, << >>}

InitFlag ==
    /\ tag \in FlagTags
    /\ tagRet = NoCall
    /\ src = NoFile /\ typeName = << >> /\ ret = NoCall /\ log = << >>
    /\ prev = NoCall

CallFlag ==
    /\ tagRet = NoCall
    /\ tagRet' = [op |-> "Flag", ok |-> Flag(tag).ok, spec |-> Flag(tag).spec]
    /\ UNCHANGED <<tag, src, typeName, ret, log, prev>>

NextFlag == CallFlag

SpecFlag == InitFlag /\ [][NextFlag]_vars

(***************************************************************************)
(* Claims about Tag.Flag, checked under SpecFlag.                           *)
(***************************************************************************)
FlagCalled == tagRet # NoCall /\ tagRet.op = "Flag"

\* The flag values C12 admits, as <<long, short>> pairs: a letter followed
\* by one or more letters, digits, '_' or '-', then nothing more or a comma
\* (and any whitespace) and exactly one letter.
AdmittedFlags(v) ==
    {p \in {<<SubSeq(v, 1, i), SubSeq(v, i + 1, Len(v))>> : i \in 0..Len(v)} :
        /\ Len(p[1]) >= 2
        /\ IsLetter(p[1][1])
        /\ \A i \in 2..Len(p[1]) : IsLetter(p[1][i]) \/ IsDigit(p[1][i]) \/ p[1][i] \in {"_", "-"}
        /\ \/ p[2] = << >>
           \/ /\ Len(p[2]) >= 2 /\ p[2][1] = "," /\ IsLetter(p[2][Len(p[2])])
              /\ \A i \in 2..(Len(p[2]) - 1) : IsSpace(p[2][i])}

\* C12: Flag is ok iff the flag value is a long name optionally followed by
\* a comma and exactly one letter; then Long is the long name and Short is
\* empty or that one letter.
C12_FlagGrammar ==
    FlagCalled =>
        LET v == decompose(tag).flag
        IN  /\ tagRet.ok <=> AdmittedFlags(v) # {}
            /\ tagRet.ok =>
                  /\ \E p \in AdmittedFlags(v) :
                        /\ tagRet.spec.Long = p[1]
                        /\ tagRet.spec.Short =
                              (IF p[2] = << >> THEN << >> ELSE <<p[2][Len(p[2])]>>)
                  /\ tagRet.spec.Short = << >>
                        \/ (Len(tagRet.spec.Short) = 1 /\ IsLetter(tagRet.spec.Short[1]))

(***************************************************************************)
(* compileInputs called on a struct declaration.                            *)
(***************************************************************************)

\* compileInputs(st) for st nil, or st.Fields nil, or st with fields
compileInputsOf(st) ==
    IF st = Nil \/ st.noFields THEN << >> ELSE compileInputs(st.fields)

\* the struct types compileInputs is called on
Structs ==
    {Nil, [status |-> "struct", noFields |-> TRUE, fields |-> << >>]}
    \cup {[status |-> "struct", noFields |-> FALSE, fields |-> fs] :
             fs \in UNION {[1..k -> FieldPool] : k \in 0..(MaxFields + 1)}}

InitInputs ==
    /\ src \in Structs
    /\ typeName = << >> /\ ret = NoCall /\ log = << >> /\ prev = NoCall
    /\ tag = << >> /\ tagRet = NoCall

CallCompileInputs ==
    /\ ret = NoCall
    /\ ret' = [op |-> "compileInputs", inputs |-> compileInputsOf(src)]
    /\ UNCHANGED <<src, typeName, log, prev, tag, tagRet>>

NextInputs == CallCompileInputs

SpecInputs == InitInputs /\ [][NextInputs]_vars

(***************************************************************************)
(* Claims about compileInputs, checked under SpecInputs.                    *)
(***************************************************************************)
InputsCompiled == ret # NoCall /\ ret.op = "compileInputs"

\* a field with exactly one name, which begins with a capital letter
Eligible(field) == Len(field.names) = 1 /\ IsUpper(field.names[1][1])

DeclaredFields == IF src = Nil THEN << >> ELSE src.fields

\* C13: compileInputs returns exactly one CommandInput for each field that
\* has exactly one name and whose name is exported, in declaration order, and
\* nothing for the other fields; each FieldName is its own field's name.
C13_OneInputPerEligibleField ==
    InputsCompiled =>
        LET kept == SelectSeq(DeclaredFields, Eligible)
        IN  /\ Len(ret.inputs) = Len(kept)
            /\ \A i \in 1..Len(kept) : ret.inputs[i].FieldName = kept[i].names[1]

\* an eligible field, a skipped one, then another eligible field
C13_Witness ==
    /\ InputsCompiled
    /\ Len(DeclaredFields) = 3
    /\ Eligible(DeclaredFields[1]) /\ ~Eligible(DeclaredFields[2])
    /\ Eligible(DeclaredFields[3])
    /\ DeclaredFields[1].names # DeclaredFields[3].names
    /\ Len(ret.inputs) = 2
    /\ ret.inputs[2].FieldName = DeclaredFields[3].names[1]

(***************************************************************************)
(* sanitizeHelp called on a doc comment, a package name and a command name. *)
(***************************************************************************)
\* most pieces a doc comment is put together from
MaxDocToks == 4

DocPieces ==
    { PackageMarker, <<"p", "k">>, <<"p", "_", "k">>, <<" ">>, <<" ", "\n", "\t">>, <<"\n">>, <<"x">>, <<"vtab">> }

RECURSIVE Concat(_)
Concat(ss) == IF ss = << >> THEN << >> ELSE Head(ss) \o Concat(Tail(ss))

Docs == {Concat(ps) : ps \in UNION {[1..k -> DocPieces] : k \in 0..MaxDocToks}}

PkgNames == {<<"p", "k">>, <<"p", "_", "k">>}

HelpCalls ==
    {[status |-> "help", doc |-> d, pkg |-> p, cmd |-> c] :
        d \in Docs, p \in PkgNames, c \in {<<"r", "u", "n">>, <<"p", "-", "k">>}}

InitHelp ==
    /\ src \in HelpCalls
    /\ typeName = << >> /\ ret = NoCall /\ log = << >> /\ prev = NoCall
    /\ tag = << >> /\ tagRet = NoCall

CallSanitizeHelp ==
    /\ ret = NoCall
    /\ ret' = [op |-> "sanitizeHelp",
               text |-> sanitizeHelp(src.doc, src.pkg, src.cmd).text]
    /\ log' = sanitizeHelp(src.doc, src.pkg, src.cmd).log
    /\ UNCHANGED <<src, typeName, prev, tag, tagRet>>

NextHelp == CallSanitizeHelp

SpecHelp == InitHelp /\ [][NextHelp]_vars

(***************************************************************************)
(* Claims about sanitizeHelp, checked under SpecHelp.                       *)
(***************************************************************************)
HelpCalled == ret # NoCall /\ ret.op = "sanitizeHelp"

\* the maximal runs of characters of s that `\s` does not match, in order
RECURSIVE WordsFrom(_, _)
WordsFrom(s, cur) ==
    IF s = << >> THEN (IF cur = << >> THEN << >> ELSE <<cur>>)
    ELSE IF IsReSpace(Head(s))
    THEN (IF cur = << >> THEN << >> ELSE <<cur>>) \o WordsFrom(Tail(s), << >>)
    ELSE WordsFrom(Tail(s), Append(cur, Head(s)))

RECURSIVE JoinWords(_)
JoinWords(ws) ==
    IF ws = << >> THEN << >>
    ELSE IF Len(ws) = 1 THEN ws[1]
    ELSE ws[1] \o <<" ">> \o JoinWords(Tail(ws))

FormatInt(n) == IF n < 0 THEN <<"-">> \o Digits(0 - n) ELSE Digits(n)

\* ArgSpec.String; Nil is the nil receiver
ArgSpecString(spec) ==
    IF spec = Nil THEN << >>
    ELSE IF spec.Start = 0 /\ spec.End = -1 THEN <<"a", "r", "g", ":", "[", ":", "]">>
    ELSE IF spec.Start = spec.End THEN FormatInt(spec.Start)
    ELSE <<"[">> \o FormatInt(spec.Start) \o <<":">> \o FormatInt(spec.End) \o <<"]">>

\* FlagSpec.Posixy
Posixy(spec) ==
    IF spec = Nil THEN FALSE ELSE spec.Long # << >> /\ Len(spec.Short) = 1

\* FlagSpec.String
FlagSpecString(spec) ==
    IF spec = Nil THEN << >>
    ELSE IF Posixy(spec) THEN FlagPrefix \o spec.Long \o <<",">> \o spec.Short
    ELSE FlagPrefix \o spec.Long

(***************************************************************************)
(* Claims about the String methods, checked under SpecArg and SpecFlag.     *)
(***************************************************************************)
\* Tag.Arg on the text as an arg directive: the text itself when it already
\* carries the "arg:" prefix, the prefix and the text otherwise
ReparseArg(text) ==
    IF HasPrefix(text, ArgPrefix) THEN Arg(text) ELSE Arg(ArgPrefix \o text)

\* Tag.Flag on the text as a flag directive
ReparseFlag(text) ==
    IF HasPrefix(text, FlagPrefix) THEN Flag(text) ELSE Flag(FlagPrefix \o text)

\* The flag half of C15: a spec returned ok by Tag.Flag, printed by
\* FlagSpec.String and parsed again, is ok and equal to the original.
FlagRoundTrip ==
    (FlagCalled /\ tagRet.ok) =>
        ReparseFlag(FlagSpecString(tagRet.spec)) = [ok |-> TRUE, spec |-> tagRet.spec]

\* C15: for every spec returned ok by Tag.Arg (resp. Tag.Flag), parsing the
\* spec's String() output again as an arg (resp. flag) directive succeeds and
\* yields a spec equal to the original.
C15_StringRoundTrip ==
    /\ (ArgCalled /\ tagRet.ok) =>
          ReparseArg(ArgSpecString(tagRet.spec)) = [ok |-> TRUE, spec |-> tagRet.spec]
    /\ FlagRoundTrip

====
